---- MODULE Spec2Model ----
(***************************************************************************)
(* A model of the HTDP web-service wrapper: the frame registry and its     *)
(* alias index, request validation, the stdin script builder, the point    *)
(* codec and one engine invocation (src/app/htdp_runner.py), and the       *)
(* /transform handler that wraps it (src/app/main.py).                     *)
(*                                                                         *)
(* Text is modelled as a sequence of one-character strings, so that        *)
(* strip, split, startswith, lower and the regular-expression filter are   *)
(* computed character by character, as Python computes them.               *)
(***************************************************************************)
EXTENDS Integers, Sequences, FiniteSets, TLC

(***************************************************************************)
(* Text helpers: the str methods the source calls.                         *)
(***************************************************************************)
UpperLetters ==
    <<"A","B","C","D","E","F","G","H","I","J","K","L","M",
      "N","O","P","Q","R","S","T","U","V","W","X","Y","Z">>

LowerLetters ==
    <<"a","b","c","d","e","f","g","h","i","j","k","l","m",
      "n","o","p","q","r","s","t","u","v","w","x","y","z">>

Digits == <<"0","1","2","3","4","5","6","7","8","9">>

Range(s) == {s[i] : i \in DOMAIN s}

IsUpper(c) == c \in Range(UpperLetters)

IsLower(c) == c \in Range(LowerLetters)

IsDigitChar(c) == c \in Range(Digits)

\* str.isspace on the characters of the model's alphabet
IsSpace(c) == c \in {" ", "\t", "\n"}

LowerChar(c) ==
    IF IsUpper(c)
    THEN LowerLetters[CHOOSE i \in DOMAIN UpperLetters : UpperLetters[i] = c]
    ELSE c

UpperChar(c) ==
    IF IsLower(c)
    THEN UpperLetters[CHOOSE i \in DOMAIN LowerLetters : LowerLetters[i] = c]
    ELSE c

\* str.lower
lower(s) == [i \in DOMAIN s |-> LowerChar(s[i])]

RECURSIVE lstrip(_)
lstrip(s) ==
    IF s = <<>> THEN <<>>
    ELSE IF IsSpace(Head(s)) THEN lstrip(Tail(s)) ELSE s

RECURSIVE rstrip(_)
rstrip(s) ==
    IF s = <<>> THEN <<>>
    ELSE IF IsSpace(s[Len(s)]) THEN rstrip(SubSeq(s, 1, Len(s) - 1)) ELSE s

\* str.strip()
strip(s) == rstrip(lstrip(s))

\* str.isdigit(): non-empty and every character a digit
isdigit(s) == s # <<>> /\ \A i \in DOMAIN s : IsDigitChar(s[i])

\* str.startswith
startswith(s, p) == Len(s) >= Len(p) /\ SubSeq(s, 1, Len(p)) = p

\* the leading run of characters satisfying no separator test, and the rest
RECURSIVE TakeWord(_)
TakeWord(s) ==
    IF s = <<>> \/ IsSpace(Head(s)) THEN <<>>
    ELSE <<Head(s)>> \o TakeWord(Tail(s))

\* str.split(): the maximal runs of non-whitespace characters, in order
RECURSIVE split(_)
split(s) ==
    LET t == lstrip(s) IN
    IF t = <<>> THEN <<>>
    ELSE LET w == TakeWord(t) IN
         <<w>> \o split(SubSeq(t, Len(w) + 1, Len(t)))

RECURSIVE TakeUntil(_, _)
TakeUntil(s, sep) ==
    IF s = <<>> \/ Head(s) = sep THEN <<>>
    ELSE <<Head(s)>> \o TakeUntil(Tail(s), sep)

\* str.split(sep) for a one-character separator: always at least one field
RECURSIVE splitOn(_, _)
splitOn(s, sep) ==
    LET f == TakeUntil(s, sep) IN
    IF Len(f) = Len(s) THEN <<f>>
    ELSE <<f>> \o splitOn(SubSeq(s, Len(f) + 2, Len(s)), sep)

\* sep.join(parts)
RECURSIVE join(_, _)
join(sep, parts) ==
    IF parts = <<>> THEN <<>>
    ELSE IF Len(parts) = 1 THEN parts[1]
    ELSE parts[1] \o sep \o join(sep, Tail(parts))

RECURSIVE Concat(_)
Concat(parts) ==
    IF parts = <<>> THEN <<>> ELSE Head(parts) \o Concat(Tail(parts))

RECURSIVE Filter(_, _)
Filter(s, keep) ==
    IF s = <<>> THEN <<>>
    ELSE IF Head(s) \in keep THEN <<Head(s)>> \o Filter(Tail(s), keep)
    ELSE Filter(Tail(s), keep)

(***************************************************************************)
(* The frame registry.                                                     *)
(***************************************************************************)
FRAME_MENU == <<
    \*  1: NAD_83(2011/CORS96/2007)
    <<"N","A","D","_","8","3","(","2","0","1","1","/","C","O","R","S","9","6","/","2","0","0","7",")">>,
    \*  2: NAD_83(PA11/PACP00)
    <<"N","A","D","_","8","3","(","P","A","1","1","/","P","A","C","P","0","0",")">>,
    \*  3: NAD_83(MA11/MARP00)
    <<"N","A","D","_","8","3","(","M","A","1","1","/","M","A","R","P","0","0",")">>,
    \*  4: WGS72
    <<"W","G","S","7","2">>,
    \*  5: WGS84 original (Transit)
    <<"W","G","S","8","4"," ","o","r","i","g","i","n","a","l"," ","(","T","r","a","n","s","i","t",")">>,
    \*  6: WGS84(G730)
    <<"W","G","S","8","4","(","G","7","3","0",")">>,
    \*  7: WGS84(G873)
    <<"W","G","S","8","4","(","G","8","7","3",")">>,
    \*  8: WGS84(G1150)
    <<"W","G","S","8","4","(","G","1","1","5","0",")">>,
    \*  9: WGS84(G1674)
    <<"W","G","S","8","4","(","G","1","6","7","4",")">>,
    \* 10: WGS84(G1762)
    <<"W","G","S","8","4","(","G","1","7","6","2",")">>,
    \* 11: WGS84(G2139)
    <<"W","G","S","8","4","(","G","2","1","3","9",")">>,
    \* 12: WGS84(G2296)
    <<"W","G","S","8","4","(","G","2","2","9","6",")">>,
    \* 13: ITRF88
    <<"I","T","R","F","8","8">>,
    \* 14: ITRF89
    <<"I","T","R","F","8","9">>,
    \* 15: ITRF90
    <<"I","T","R","F","9","0">>,
    \* 16: ITRF91
    <<"I","T","R","F","9","1">>,
    \* 17: ITRF92
    <<"I","T","R","F","9","2">>,
    \* 18: ITRF93
    <<"I","T","R","F","9","3">>,
    \* 19: ITRF94
    <<"I","T","R","F","9","4">>,
    \* 20: ITRF96
    <<"I","T","R","F","9","6">>,
    \* 21: ITRF97
    <<"I","T","R","F","9","7">>,
    \* 22: ITRF2000 or IGS00/IGb00
    <<"I","T","R","F","2","0","0","0"," ","o","r"," ","I","G","S","0","0","/","I","G","b","0","0">>,
    \* 23: ITRF2005 or IGS05
    <<"I","T","R","F","2","0","0","5"," ","o","r"," ","I","G","S","0","5">>,
    \* 24: ITRF2008 or IGS08/IGb08
    <<"I","T","R","F","2","0","0","8"," ","o","r"," ","I","G","S","0","8","/","I","G","b","0","8">>,
    \* 25: ITRF2014 or IGS14/IGb14
    <<"I","T","R","F","2","0","1","4"," ","o","r"," ","I","G","S","1","4","/","I","G","b","1","4">>,
    \* 26: ITRF2020 or IGS20/IGb20
    <<"I","T","R","F","2","0","2","0"," ","o","r"," ","I","G","S","2","0","/","I","G","b","2","0">>
>>

FrameIndices == DOMAIN FRAME_MENU

\* the characters the pattern [^a-z0-9] leaves in place
NormalKept == Range(LowerLetters) \cup Range(Digits)

\* a normaliser that forgets to lower-case
NormaliseKeepCase(value) == Filter(value, NormalKept)

\* re.sub(r"[^a-z0-9]", "", value.lower())
_normalise_label(value) == Filter(lower(value), NormalKept)

\* dict[key] = idx
DictAssign(d, key, v) == (key :> v) @@ d

\* dict.setdefault(key, idx)
DictSetDefault(d, key, v) == d @@ (key :> v)

EmptyDict == <<>>

\* label.split()[0]
short_label(label) == split(label)[1]

HasParen(label) == "(" \in Range(label)

\* label.split("(")[0]
before_paren(label) == splitOn(label, "(")[1]

\* the three registrations of one pass of the module-level loop
RegisterFullIn(d, i) == DictAssign(d, _normalise_label(FRAME_MENU[i]), i)

RegisterShortIn(d, i) ==
    DictSetDefault(d, _normalise_label(short_label(FRAME_MENU[i])), i)

\* the third registration done with plain assignment
RegisterParenAssign(d, i) ==
    IF HasParen(FRAME_MENU[i])
    THEN DictAssign(d, _normalise_label(before_paren(FRAME_MENU[i])), i)
    ELSE d

RegisterParenIn(d, i) ==
    IF HasParen(FRAME_MENU[i])
    THEN DictSetDefault(d, _normalise_label(before_paren(FRAME_MENU[i])), i)
    ELSE d

(***************************************************************************)
(* resolve_frame.  An identifier is [int |-> n] or [str |-> text]; the      *)
(* result is [ok |-> TRUE, index |-> n] or [ok |-> FALSE, error |-> e].     *)
(***************************************************************************)
IsIntId(v) == "int" \in DOMAIN v

Ok(n) == [ok |-> TRUE, index |-> n]

Raise(type, msg) == [ok |-> FALSE, type |-> type, msg |-> msg]

RECURSIVE int(_)
\* int(text) for a text of digits
int(s) ==
    IF s = <<>> THEN 0
    ELSE 10 * int(SubSeq(s, 1, Len(s) - 1))
         + (CHOOSE i \in DOMAIN Digits : Digits[i] = s[Len(s)]) - 1

resolve_index(n) ==
    IF n \in FrameIndices THEN Ok(n)
    ELSE Raise("ValueError", "Unknown reference frame index")

resolve_frame(aliases, value) ==
    IF IsIntId(value) THEN resolve_index(value.int)
    ELSE LET text == strip(value.str) IN
         IF text = <<>> THEN Raise("ValueError", "Reference frame cannot be empty")
         ELSE IF isdigit(text) THEN resolve_index(int(text))
         ELSE LET key == _normalise_label(text) IN
              IF key \in DOMAIN aliases THEN Ok(aliases[key])
              ELSE Raise("ValueError", "Unrecognised reference frame")


(***************************************************************************)
(* Floating-point values as exact decimals: a sign, the digits before the  *)
(* point (no leading zero) and the digits after it (no trailing zero), or  *)
(* nan, or an infinity.  Minus zero is a value of its own, as in Python.   *)
(***************************************************************************)
RECURSIVE StripLeadingZeros(_)
StripLeadingZeros(ds) ==
    IF ds # <<>> /\ Head(ds) = "0" THEN StripLeadingZeros(Tail(ds)) ELSE ds

RECURSIVE StripTrailingZeros(_)
StripTrailingZeros(ds) ==
    IF ds # <<>> /\ ds[Len(ds)] = "0"
    THEN StripTrailingZeros(SubSeq(ds, 1, Len(ds) - 1))
    ELSE ds

Zeros(n) == [i \in 1..n |-> "0"]

Dec(neg, ip, fp) ==
    [kind |-> "fin", neg |-> neg,
     ip |-> StripLeadingZeros(ip), fp |-> StripTrailingZeros(fp)]

NaN == [kind |-> "nan", neg |-> FALSE, ip |-> <<>>, fp |-> <<>>]

Inf(neg) == [kind |-> "inf", neg |-> neg, ip |-> <<>>, fp |-> <<>>]

IsZero(x) == x.kind = "fin" /\ x.ip = <<>> /\ x.fp = <<>>

\* unary minus
Neg(x) == IF x.kind = "nan" THEN x ELSE [x EXCEPT !.neg = ~@]

DigitVal(c) == (CHOOSE i \in DOMAIN Digits : Digits[i] = c) - 1

\* x < y for digit strings of one length
LexLess(x, y) ==
    \E i \in DOMAIN x :
        /\ DigitVal(x[i]) < DigitVal(y[i])
        /\ \A j \in 1..(i - 1) : x[j] = y[j]

Max(a, b) == IF a >= b THEN a ELSE b

\* |a| < |b|
MagLess(a, b) ==
    IF a.kind = "inf" THEN FALSE
    ELSE IF b.kind = "inf" THEN TRUE
    ELSE IF Len(a.ip) # Len(b.ip) THEN Len(a.ip) < Len(b.ip)
    ELSE LET n == Max(Len(a.fp), Len(b.fp)) IN
         LexLess(a.ip \o a.fp \o Zeros(n - Len(a.fp)),
                 b.ip \o b.fp \o Zeros(n - Len(b.fp)))

Negative(x) == x.neg /\ ~IsZero(x)

\* a < b on floats: false whenever either side is nan
FloatLess(a, b) ==
    IF a.kind = "nan" \/ b.kind = "nan" THEN FALSE
    ELSE IF Negative(a) /\ ~Negative(b) THEN TRUE
    ELSE IF ~Negative(a) /\ Negative(b) THEN FALSE
    ELSE IF Negative(a) THEN MagLess(b, a)
    ELSE MagLess(a, b)

\* a == b on floats
FloatEq(a, b) ==
    /\ a.kind # "nan" /\ b.kind # "nan"
    /\ ~FloatLess(a, b) /\ ~FloatLess(b, a)

\* a >= b, a <= b
FloatGe(a, b) == FloatEq(a, b) \/ FloatLess(b, a)

FloatLe(a, b) == FloatEq(a, b) \/ FloatLess(a, b)

Chars_nan == <<"n","a","n">>

Chars_inf == <<"i","n","f">>

Chars_infinity == <<"i","n","f","i","n","i","t","y">>

SignChars(x) == IF x.neg THEN <<"-">> ELSE <<>>

IntChars(x) == IF x.ip = <<>> THEN <<"0">> ELSE x.ip

\* format(x, ".<n>f") for a value with at most n fraction digits (the values
\* that are formatted carry no more, so that no rounding takes place)
format_f(x, n) ==
    IF x.kind = "nan" THEN Chars_nan
    ELSE IF x.kind = "inf" THEN SignChars(x) \o Chars_inf
    ELSE SignChars(x) \o IntChars(x) \o <<".">> \o x.fp \o Zeros(n - Len(x.fp))

\* str(x) of a float of ordinary magnitude, as in f"{x}"
float_str(x) ==
    IF x.kind = "nan" THEN Chars_nan
    ELSE IF x.kind = "inf" THEN SignChars(x) \o Chars_inf
    ELSE SignChars(x) \o IntChars(x) \o <<".">>
         \o (IF x.fp = <<>> THEN <<"0">> ELSE x.fp)

\* str(n) of an int
RECURSIVE NatChars(_)
NatChars(n) ==
    IF n < 10 THEN <<Digits[n + 1]>>
    ELSE NatChars(n \div 10) \o <<Digits[(n % 10) + 1]>>

int_str(n) == IF n < 0 THEN <<"-">> \o NatChars(-n) ELSE NatChars(n)

AllDigits(s) == \A i \in DOMAIN s : IsDigitChar(s[i])

HasSign(s) == s # <<>> /\ Head(s) \in {"+", "-"}

Unsigned(s) == IF HasSign(s) THEN Tail(s) ELSE s

\* the exponent part of a float literal: an optional sign and digits
ValidExponent(e) == Unsigned(e) # <<>> /\ AllDigits(Unsigned(e))

ExponentOf(e) ==
    IF e # <<>> /\ Head(e) = "-" THEN -int(Unsigned(e)) ELSE int(Unsigned(e))

\* the decimal ds1.ds2 times 10^e
Shifted(neg, ds1, ds2, e) ==
    LET ds == ds1 \o ds2
        point == Len(ds1) + e
    IN IF point <= 0 THEN Dec(neg, <<>>, Zeros(-point) \o ds)
       ELSE IF point >= Len(ds) THEN Dec(neg, ds \o Zeros(point - Len(ds)), <<>>)
       ELSE Dec(neg, SubSeq(ds, 1, point), SubSeq(ds, point + 1, Len(ds)))

FloatOk(x) == [ok |-> TRUE, value |-> x]

FloatError == [ok |-> FALSE, value |-> NaN]

\* float(token): a sign, then nan, inf or infinity in any case, or digits
\* with at most one point and an optional exponent (digit-group underscores
\* are not in the alphabet of the tokens that are parsed)
float(token) ==
    LET neg == token # <<>> /\ Head(token) = "-"
        body == lower(Unsigned(token))
        parts == splitOn(body, "e")
        mant == splitOn(parts[1], ".")
    IN IF body = Chars_nan THEN FloatOk(NaN)
       ELSE IF body \in {Chars_inf, Chars_infinity} THEN FloatOk(Inf(neg))
       ELSE IF Len(parts) > 2 \/ Len(mant) > 2 THEN FloatError
       ELSE LET ds1 == mant[1]
                ds2 == IF Len(mant) = 2 THEN mant[2] ELSE <<>>
            IN IF ~AllDigits(ds1) \/ ~AllDigits(ds2) \/ ds1 \o ds2 = <<>>
               THEN FloatError
               ELSE IF Len(parts) = 2 /\ ~ValidExponent(parts[2]) THEN FloatError
               ELSE FloatOk(Shifted(neg, ds1, ds2,
                                    IF Len(parts) = 2 THEN ExponentOf(parts[2]) ELSE 0))

(***************************************************************************)
(* The request model: TransformationPoint and TransformationRequest.       *)
(***************************************************************************)
MaxNameLength == 24

D90 == Dec(FALSE, <<"9","0">>, <<>>)

D360 == Dec(FALSE, <<"3","6","0">>, <<>>)

EpochFloor == Dec(FALSE, <<"1","9","0","6">>, <<>>)

\* the fields of a raw point that fail their Field constraints
PointErrors(raw) ==
    {f \in {"name", "latitude", "longitude"} :
        \/ f = "name" /\ Len(raw.name) > MaxNameLength
        \/ f = "latitude"
             /\ ~(FloatGe(raw.latitude, Neg(D90)) /\ FloatLe(raw.latitude, D90))
        \/ f = "longitude"
             /\ ~(FloatGe(raw.longitude, Neg(D360)) /\ FloatLe(raw.longitude, D360))}

\* the name validator runs on a name that passed max_length
StoredPoint(raw) ==
    [name |-> strip(raw.name),
     latitude |-> raw.latitude,
     longitude |-> raw.longitude,
     ellipsoid_height |-> raw.ellipsoid_height]

TransformationPoint(raw) ==
    [ok |-> PointErrors(raw) = {}, errors |-> PointErrors(raw), value |-> StoredPoint(raw)]

\* _validate_epoch: raises when value < 1906.0
EpochValid(value) == ~FloatLess(value, EpochFloor)

\* _require_points: raises when the list is empty
PointsValid(value) == value # <<>>

\* the fields of a raw request that fail validation
RequestErrors(aliases, raw) ==
    {f \in {"input_frame", "output_frame", "input_epoch", "output_epoch", "points"} :
        \/ f = "input_frame" /\ ~resolve_frame(aliases, raw.input_frame).ok
        \/ f = "output_frame" /\ ~resolve_frame(aliases, raw.output_frame).ok
        \/ f = "input_epoch" /\ ~EpochValid(raw.input_epoch)
        \/ f = "output_epoch" /\ ~EpochValid(raw.output_epoch)
        \/ f = "points"
             /\ \/ \E i \in DOMAIN raw.points : ~TransformationPoint(raw.points[i]).ok
                \/ ~PointsValid(raw.points)}

FrameOrZero(r) == IF r.ok THEN r.index ELSE 0

ValidatedRequest(aliases, raw) ==
    [input_frame |-> FrameOrZero(resolve_frame(aliases, raw.input_frame)),
     output_frame |-> FrameOrZero(resolve_frame(aliases, raw.output_frame)),
     input_epoch |-> raw.input_epoch,
     output_epoch |-> raw.output_epoch,
     points |-> [i \in DOMAIN raw.points |-> StoredPoint(raw.points[i])]]

TransformationRequest(aliases, raw) ==
    [ok |-> RequestErrors(aliases, raw) = {},
     errors |-> RequestErrors(aliases, raw),
     value |-> ValidatedRequest(aliases, raw)]

(***************************************************************************)
(* The script builder.                                                     *)
(***************************************************************************)
ScriptHead(output_path, input_frame, output_frame, input_epoch, output_epoch, input_file) ==
    << <<"4">>,
       output_path,
       int_str(input_frame),
       int_str(output_frame),
       <<"2">>,
       float_str(input_epoch),
       <<"2">>,
       float_str(output_epoch),
       <<"3">>,
       input_file,
       <<"0">> >>

\* the script without the exit command appended after the list is built
ScriptWithoutExit(output_path, input_frame, output_frame, input_epoch, output_epoch, input_file) ==
    join(<<"\n">>, ScriptHead(output_path, input_frame, output_frame,
                              input_epoch, output_epoch, input_file)) \o <<"\n">>

build_stdin_script(output_path, input_frame, output_frame, input_epoch, output_epoch, input_file) ==
    join(<<"\n">>,
         Append(ScriptHead(output_path, input_frame, output_frame,
                           input_epoch, output_epoch, input_file), <<"0">>))
    \o <<"\n">>

(***************************************************************************)
(* The point codec.  A disk is a function from paths to file contents.     *)
(***************************************************************************)
CoordinateDecimals == 12

HeightDecimals == 4

point_line(point) ==
    format_f(point.latitude, CoordinateDecimals) \o <<",">>
    \o format_f(Neg(point.longitude), CoordinateDecimals) \o <<",">>
    \o format_f(point.ellipsoid_height, HeightDecimals) \o <<",">>
    \o point.name \o <<"\n">>

\* the text write_input_file writes to its path
write_input_file(pts) == Concat([i \in DOMAIN pts |-> point_line(pts[i])])

\* the lines a text file iterates over (each without its terminator)
FileLines(content) ==
    LET f == splitOn(content, "\n") IN
    IF f[Len(f)] = <<>> THEN SubSeq(f, 1, Len(f) - 1) ELSE f

BannerTransforming == <<"T","R","A","N","S","F","O","R","M","I","N","G">>

BannerStars == <<"*","*","*">>

MinParts == 4

TransformationResult(name, latitude, longitude, ellipsoid_height) ==
    [name |-> name, latitude |-> latitude, longitude |-> longitude,
     ellipsoid_height |-> ellipsoid_height]

\* a test that lets a line of three tokens through
TooFewPartsThree(parts) == Len(parts) < MinParts - 1

\* len(parts) < 4
TooFewParts(parts) == Len(parts) < MinParts

\* the rows the tokens of one line add to the results: none or one
RowsOfParts(parts) ==
    IF TooFewParts(parts) THEN <<>>
    ELSE IF ~(float(parts[1]).ok /\ float(parts[2]).ok /\ float(parts[3]).ok)
    THEN <<>>
    ELSE << TransformationResult(join(<<" ">>, SubSeq(parts, 4, Len(parts))),
                                 float(parts[1]).value,
                                 Neg(float(parts[2]).value),
                                 float(parts[3]).value) >>

parse_line(line) ==
    LET stripped == strip(line) IN
    IF stripped = <<>> THEN <<>>
    ELSE IF startswith(stripped, BannerTransforming) \/ startswith(stripped, BannerStars)
    THEN <<>>
    ELSE RowsOfParts(split(stripped))

ParseOk(rows) == [ok |-> TRUE, results |-> rows, type |-> "", msg |-> ""]

ParseRaise(type, msg) == [ok |-> FALSE, results |-> <<>>, type |-> type, msg |-> msg]

parse_output_file(disk, path) ==
    IF path \notin DOMAIN disk
    THEN ParseRaise("FileNotFoundError", "HTDP output file was not created")
    ELSE LET lines == FileLines(disk[path]) IN
         ParseOk(Concat([i \in DOMAIN lines |-> parse_line(lines[i])]))

(***************************************************************************)
(* State.                                                                  *)
(***************************************************************************)
\* Python's None, and the value of a variable nothing has been assigned to
None == [none |-> TRUE]

VARIABLES
    \* module import: the alias index and the position of the loop that builds it
    _frame_aliases, idx, step,
    \* a resolution under study: an identifier, a respelling of it, the two answers
    base, variant, edits, baseResult, variantResult,
    \* the disk: the directories that exist and the content of each file
    dirs, fs,
    \* the codec: the points to encode, the last raw point refused, the lines
    \* the engine has written, the decoded results, the error raised, the progress
    points, rejected, emitted, results, raised, phase,
    \* the script builder: its arguments and the script
    script_args, stdin_script,
    \* one POST /transform: the validated payload, the answer, the position of
    \* the call, the state of the engine binary, the temporary directory, the
    \* child process, what subprocess.run returned, the exception in flight,
    \* and how many children and temporary directories the call has made
    request, response, pc, binary, tmpdir, child, completed, exc, spawned, tmpMade

varsImport == <<_frame_aliases, idx, step>>

varsResolve == <<base, variant, edits, baseResult, variantResult>>

varsDisk == <<dirs, fs>>

varsCodec == <<points, rejected, emitted, results, raised, phase>>

varsScript == <<script_args, stdin_script>>

varsCall == <<request, response, pc, binary, tmpdir, child, completed, exc, spawned, tmpMade>>

vars == <<varsImport, varsResolve, varsDisk, varsCodec, varsScript, varsCall>>

\* how many respelling steps are applied to an identifier
MaxEdits == 2

\* how many points a list to encode holds
MaxPoints == 2

\* how many lines the engine writes to a file that is decoded
MaxLines == 2

NoError == [type |-> "None", msg |-> "", raised_by |-> "", args |-> <<>>]

Error(type, msg, by, args) == [type |-> type, msg |-> msg, raised_by |-> by, args |-> args]

InitResolve ==
    /\ base = None
    /\ variant = None
    /\ edits = 0
    /\ baseResult = None
    /\ variantResult = None

InitCodec ==
    /\ points = <<>>
    /\ rejected = None
    /\ emitted = <<>>
    /\ results = <<>>
    /\ raised = NoError
    /\ phase = "idle"

InitScript ==
    /\ script_args = None
    /\ stdin_script = <<>>

InitCall ==
    /\ request = None
    /\ response = None
    /\ pc = "idle"
    /\ tmpdir = <<>>
    /\ child = "none"
    /\ completed = None
    /\ exc = NoError
    /\ spawned = 0
    /\ tmpMade = 0

TmpA == <<"/","t","m","p","/","h","t","d","p","_","a">>

TmpB == <<"/","t","m","p","/","h","t","d","p","_","b">>

\* the names tempfile may give a directory made with prefix "htdp_"
TmpNames == {TmpA, TmpB}

\* tmp_path / name
PathIn(dir, name) == dir \o <<"/">> \o name

PointsTxt == <<"p","o","i","n","t","s",".","t","x","t">>

ResultsTxt == <<"r","e","s","u","l","t","s",".","t","x","t">>

Under(dir, path) == startswith(path, dir \o <<"/">>)

(***************************************************************************)
(* Module import: the loop of lines 55-63, one registration per step.      *)
(***************************************************************************)
InitImport ==
    /\ _frame_aliases = EmptyDict
    /\ idx = 1
    /\ step = "full"

Imported == idx > Len(FRAME_MENU)

RegisterFull ==
    /\ ~Imported /\ step = "full"
    /\ _frame_aliases' = RegisterFullIn(_frame_aliases, idx)
    /\ step' = "short"
    /\ UNCHANGED idx
    /\ UNCHANGED <<varsResolve, varsDisk, varsCodec, varsScript, varsCall>>

RegisterShort ==
    /\ ~Imported /\ step = "short"
    /\ _frame_aliases' = RegisterShortIn(_frame_aliases, idx)
    /\ step' = "paren"
    /\ UNCHANGED idx
    /\ UNCHANGED <<varsResolve, varsDisk, varsCodec, varsScript, varsCall>>

RegisterParen ==
    /\ ~Imported /\ step = "paren"
    /\ _frame_aliases' = RegisterParenIn(_frame_aliases, idx)
    /\ step' = "full"
    /\ idx' = idx + 1
    /\ UNCHANGED <<varsResolve, varsDisk, varsCodec, varsScript, varsCall>>

(***************************************************************************)
(* Resolving identifiers and respellings of them.                          *)
(***************************************************************************)
Text(chars) == [str |-> chars]

Index(n) == [int |-> n]

IdItrf2014 == <<"i","t","r","f","2","0","1","4">>

IdITRF2014 == <<"I","T","R","F","2","0","1","4">>

IdItrfDash2014 == <<"i","t","r","f","-","2","0","1","4">>

Id25 == <<"2","5">>

Id999 == <<"9","9","9">>

IdNotAFrame == <<"n","o","t","-","a","-","f","r","a","m","e">>

IdWgs84 == <<"w","g","s","8","4">>

IdNad83 == <<"N","A","D","_","8","3">>


KeyWgs84 == <<"w","g","s","8","4">>

\* the identifiers that are resolved
Identifiers ==
    {Index(25), Index(1), Index(0), Index(27), Index(999)}
    \cup {Text(t) : t \in {IdItrf2014, IdITRF2014, IdItrfDash2014, Id25, Id999,
                           IdNotAFrame, IdWgs84, IdNad83, <<>>, <<" ">>}}

\* the non-alphanumeric characters a respelling may add
Punctuation == {"-", " ", "("}

IsAlnum(c) == IsUpper(c) \/ IsLower(c) \/ IsDigitChar(c)

ToggleCaseAt(s, i) ==
    [s EXCEPT ![i] = IF IsUpper(@) THEN LowerChar(@) ELSE UpperChar(@)]

InsertAt(s, i, c) == SubSeq(s, 1, i - 1) \o <<c>> \o SubSeq(s, i, Len(s))

RemoveAt(s, i) == SubSeq(s, 1, i - 1) \o SubSeq(s, i + 1, Len(s))

PickIdentifier ==
    /\ Imported
    /\ \E v \in Identifiers :
          /\ base' = v
          /\ variant' = v
    /\ edits' = 0
    /\ baseResult' = None
    /\ variantResult' = None
    /\ UNCHANGED <<varsImport, varsDisk, varsCodec, varsScript, varsCall, varsDisk, varsCodec, varsScript, varsCall>>

CanEdit ==
    /\ base # None /\ ~IsIntId(base)
    /\ baseResult = None
    /\ edits < MaxEdits

ToggleCase ==
    /\ CanEdit
    /\ \E i \in DOMAIN variant.str :
          /\ IsUpper(variant.str[i]) \/ IsLower(variant.str[i])
          /\ variant' = Text(ToggleCaseAt(variant.str, i))
    /\ edits' = edits + 1
    /\ UNCHANGED <<varsImport, varsDisk, varsCodec, varsScript, varsCall, base, baseResult, variantResult>>

InsertPunctuation ==
    /\ CanEdit
    /\ \E i \in 1..(Len(variant.str) + 1), c \in Punctuation :
          variant' = Text(InsertAt(variant.str, i, c))
    /\ edits' = edits + 1
    /\ UNCHANGED <<varsImport, varsDisk, varsCodec, varsScript, varsCall, base, baseResult, variantResult>>

RemovePunctuation ==
    /\ CanEdit
    /\ \E i \in DOMAIN variant.str :
          /\ ~IsAlnum(variant.str[i])
          /\ variant' = Text(RemoveAt(variant.str, i))
    /\ edits' = edits + 1
    /\ UNCHANGED <<varsImport, varsDisk, varsCodec, varsScript, varsCall, base, baseResult, variantResult>>

Resolve ==
    /\ base # None /\ baseResult = None
    /\ baseResult' = resolve_frame(_frame_aliases, base)
    /\ variantResult' = resolve_frame(_frame_aliases, variant)
    /\ UNCHANGED <<varsImport, varsDisk, varsCodec, varsScript, varsCall, base, variant, edits>>

NextFrames ==
    \/ RegisterFull
    \/ RegisterShort
    \/ RegisterParen
    \/ PickIdentifier
    \/ ToggleCase
    \/ InsertPunctuation
    \/ RemovePunctuation
    \/ Resolve

InitDisk ==
    /\ dirs = {}
    /\ fs = <<>>

InitFrames ==
    /\ InitImport /\ InitResolve /\ InitDisk /\ InitCodec /\ InitScript /\ InitCall
    /\ binary = "ok"

SpecFrames == InitFrames /\ [][NextFrames]_vars

(***************************************************************************)
(* Claims about the frame registry.                                        *)
(***************************************************************************)
Resolved == baseResult # None

ItrfExamples == {IdItrf2014, IdITRF2014, IdItrfDash2014}

ExamplesResolve ==
    /\ (Resolved /\ ~IsIntId(variant) /\ variant.str \in ItrfExamples)
          => /\ variantResult.ok
             /\ variantResult = resolve_frame(_frame_aliases, Index(25))
    /\ (Resolved /\ ~IsIntId(variant) /\ variant.str \in {Id999, IdNotAFrame})
          => /\ ~variantResult.ok
             /\ variantResult.type = "ValueError"

\* C7, as stated: every respelling (letter case, non-alphanumeric characters
\* added or removed) of any text identifier that resolve_frame accepts
\* resolves to the same index; the three spellings of ITRF2014 give the index
\* of resolve_frame(25); "999" and "not-a-frame" fail with a ValueError.
C7_AnyAcceptedTextIsInsensitive ==
    /\ (Resolved /\ ~IsIntId(base) /\ baseResult.ok) => variantResult = baseResult
    /\ ExamplesResolve

\* C7, amended: the insensitivity holds for the text identifiers accepted
\* through the alias index, that is those that are not all digits once
\* surrounding whitespace is stripped; a text of digits is read as a numeric
\* index, and its respellings agree with it only while they still strip to
\* the same digits.
C7_AliasTextIsInsensitive ==
    /\ (Resolved /\ ~IsIntId(base) /\ baseResult.ok /\ ~isdigit(strip(base.str)))
          => variantResult = baseResult
    /\ (Resolved /\ ~IsIntId(base) /\ baseResult.ok /\ isdigit(strip(base.str))
          /\ strip(variant.str) = strip(base.str))
          => variantResult = baseResult
    /\ ExamplesResolve

\* an accepted alias respelt with another case and an added character
C7_Witness ==
    /\ Resolved /\ ~IsIntId(base)
    /\ base.str = IdItrf2014
    /\ edits = 2
    /\ \E i \in DOMAIN variant.str : IsUpper(variant.str[i])
    /\ \E i \in DOMAIN variant.str : variant.str[i] \in Punctuation
    /\ variantResult = Ok(25)

\* C8: while the alias index is built, and ever after, a key that is mapped
\* keeps the index it was first given: no registration overwrites a mapping.
C8_FirstRegistrationWins ==
    [][\A k \in DOMAIN _frame_aliases :
          /\ k \in DOMAIN _frame_aliases'
          /\ _frame_aliases'[k] = _frame_aliases[k]]_vars

\* entry 6, WGS84(G730), has registered its text before the parenthesis, and
\* the key, first given to entry 5, still maps to 5
C8_Witness ==
    /\ idx = 7 /\ step = "full"
    /\ _normalise_label(before_paren(FRAME_MENU[6])) = KeyWgs84
    /\ _normalise_label(short_label(FRAME_MENU[5])) = KeyWgs84
    /\ KeyWgs84 \in DOMAIN _frame_aliases
    /\ _frame_aliases[KeyWgs84] = 5

(***************************************************************************)
(* Encoding points: TransformationPoint and write_input_file.              *)
(***************************************************************************)
\* the point of the end-to-end scenario
RawDenver ==
    [name |-> <<"D","e","n","v","e","r">>,
     latitude |-> Dec(FALSE, <<"3","9">>, <<>>),
     longitude |-> Dec(TRUE, <<"1","0","4">>, <<>>),
     ellipsoid_height |-> Dec(FALSE, <<"1","6","0","0">>, <<>>)]

\* surrounding whitespace and an inner space in the name
RawStationA ==
    [name |-> <<" ","S","t","a","t","i","o","n"," ","A"," ">>,
     latitude |-> Dec(TRUE, <<"4","5">>, <<"1","2","3","4","5","6","7","8","9","0","1","2">>),
     longitude |-> Dec(FALSE, <<"1","0","5">>, <<"5">>),
     ellipsoid_height |-> Dec(TRUE, <<"1","2">>, <<"3","4","5","6">>)]

\* longitude zero, empty name
RawOrigin ==
    [name |-> <<>>,
     latitude |-> Dec(FALSE, <<>>, <<>>),
     longitude |-> Dec(FALSE, <<>>, <<>>),
     ellipsoid_height |-> Dec(FALSE, <<>>, <<>>)]

\* a comma inside the name
RawComma ==
    [name |-> <<"A",",","B">>,
     latitude |-> Dec(FALSE, <<"3","9">>, <<>>),
     longitude |-> Dec(TRUE, <<"1","0","4">>, <<>>),
     ellipsoid_height |-> Dec(FALSE, <<"1","6","0","0">>, <<>>)]

\* a line break inside the name
RawNewline ==
    [name |-> <<"A","\n","B">>,
     latitude |-> Dec(FALSE, <<"3","9">>, <<>>),
     longitude |-> Dec(TRUE, <<"1","0","4">>, <<>>),
     ellipsoid_height |-> Dec(FALSE, <<"1","6","0","0">>, <<>>)]

\* a name of 24 characters
RawName24 ==
    [name |-> <<"A","B","C","D","E","F","G","H","I","J","K","L","M","N","O","P","Q","R","S","T","U","V","W","X">>,
     latitude |-> Dec(FALSE, <<"9","0">>, <<>>),
     longitude |-> Dec(FALSE, <<"3","6","0">>, <<>>),
     ellipsoid_height |-> Dec(FALSE, <<>>, <<"5">>)]

\* a name of 25 characters
RawName25 ==
    [name |-> <<"A","B","C","D","E","F","G","H","I","J","K","L","M","N","O","P","Q","R","S","T","U","V","W","X","Y">>,
     latitude |-> Dec(FALSE, <<"3","9">>, <<>>),
     longitude |-> Dec(TRUE, <<"1","0","4">>, <<>>),
     ellipsoid_height |-> Dec(FALSE, <<"1","6","0","0">>, <<>>)]

\* 23 characters and two spaces
RawPadded25 ==
    [name |-> <<" ","A","B","C","D","E","F","G","H","I","J","K","L","M","N","O","P","Q","R","S","T","U","V","W"," ">>,
     latitude |-> Dec(FALSE, <<"3","9">>, <<>>),
     longitude |-> Dec(TRUE, <<"1","0","4">>, <<>>),
     ellipsoid_height |-> Dec(FALSE, <<"1","6","0","0">>, <<>>)]

\* a latitude above 90
RawNorth ==
    [name |-> <<"N">>,
     latitude |-> Dec(FALSE, <<"9","0">>, <<"5">>),
     longitude |-> Dec(TRUE, <<"1","0","4">>, <<>>),
     ellipsoid_height |-> Dec(FALSE, <<"1","6","0","0">>, <<>>)]

\* a longitude below -360
RawWest ==
    [name |-> <<"W">>,
     latitude |-> Dec(FALSE, <<"3","9">>, <<>>),
     longitude |-> Dec(TRUE, <<"3","6","0">>, <<"5">>),
     ellipsoid_height |-> Dec(FALSE, <<"1","6","0","0">>, <<>>)]

RawPoints ==
    {RawDenver,
     RawStationA,
     RawOrigin,
     RawComma,
     RawNewline,
     RawName24,
     RawName25,
     RawPadded25,
     RawNorth,
     RawWest}

\* the file the points are written to
InputPath == PathIn(TmpA, PointsTxt)

\* the file the engine writes
OutputPath == PathIn(TmpA, ResultsTxt)

AcceptPoint ==
    /\ Imported /\ phase = "idle"
    /\ Len(points) < MaxPoints
    /\ \E raw \in RawPoints :
          /\ TransformationPoint(raw).ok
          /\ points' = Append(points, TransformationPoint(raw).value)
    /\ UNCHANGED <<rejected, emitted, results, raised, phase>>
    /\ UNCHANGED <<varsImport, varsResolve, varsDisk, varsScript, varsCall>>

RejectPoint ==
    /\ Imported /\ phase = "idle"
    /\ \E raw \in RawPoints :
          /\ ~TransformationPoint(raw).ok
          /\ rejected' = raw
          /\ raised' = Error("ValidationError", "", "TransformationPoint",
                             TransformationPoint(raw).errors)
    /\ UNCHANGED <<points, emitted, results, phase>>
    /\ UNCHANGED <<varsImport, varsResolve, varsDisk, varsScript, varsCall>>

WriteInputFile ==
    /\ Imported /\ phase = "idle"
    /\ fs' = (InputPath :> write_input_file(points)) @@ fs
    /\ phase' = "written"
    /\ UNCHANGED <<dirs, points, rejected, emitted, results, raised>>
    /\ UNCHANGED <<varsImport, varsResolve, varsScript, varsCall>>

NextEncode ==
    \/ RegisterFull
    \/ RegisterShort
    \/ RegisterParen
    \/ AcceptPoint
    \/ RejectPoint
    \/ WriteInputFile

InitWorkDir ==
    /\ dirs = {TmpA}
    /\ fs = <<>>

InitEncode ==
    /\ InitImport /\ InitResolve /\ InitWorkDir /\ InitCodec /\ InitScript /\ InitCall
    /\ binary = "ok"

SpecEncode == InitEncode /\ [][NextEncode]_vars

(***************************************************************************)
(* Claims about the encoder.                                               *)
(***************************************************************************)
\* whether the text t reads as the float x
ReadsAs(t, x) == float(t).ok /\ FloatEq(float(t).value, x)

LineHasFourFields(line, point) ==
    LET f == splitOn(line, ",") IN
    /\ Len(f) = 4
    /\ ReadsAs(f[1], point.latitude)
    /\ ReadsAs(f[2], Neg(point.longitude))
    /\ ReadsAs(f[3], point.ellipsoid_height)
    /\ f[4] = point.name

\* C9: the input file holds exactly one newline-terminated line per point,
\* in input order, each of exactly four comma-separated fields: latitude,
\* the negated longitude, height and name; nothing before or after them.
C9_OneFourFieldLinePerPoint ==
    phase = "written" =>
        LET content == fs[InputPath]
            lines == FileLines(content)
        IN /\ content = <<>> \/ content[Len(content)] = "\n"
           /\ Len(lines) = Len(points)
           /\ \A i \in DOMAIN points : LineHasFourFields(lines[i], points[i])

(***************************************************************************)
(* Decoding the engine's output: parse_output_file.  Each line the engine  *)
(* may write is listed with the rows it stands for: none for a line that   *)
(* is empty, begins with TRANSFORMING or ***, has fewer than four tokens   *)
(* or a first, second or third token that is no number; else one row with  *)
(* the first token, the negated second token, the third token and the      *)
(* remaining tokens joined by single spaces.                               *)
(***************************************************************************)
OutputLine(text, rows) == [text |-> text, rows |-> rows]

\* "*** HTDP OUTPUT ***"
LineStars ==
    OutputLine(<<"*","*","*"," ","H","T","D","P"," ","O","U","T","P","U","T"," ","*","*","*">>,
        <<>>)

\* "TRANSFORMING POSITIONS FROM ITRF2014"
LineTransforming ==
    OutputLine(<<"T","R","A","N","S","F","O","R","M","I","N","G"," ","P","O","S","I","T","I","O","N","S"," ","F","R","O","M"," ","I","T","R","F","2","0","1","4">>,
        <<>>)

\* ""
LineEmpty ==
    OutputLine(<<>>,
        <<>>)

\* "   "
LineBlank ==
    OutputLine(<<" "," "," ">>,
        <<>>)

\* "40.123456789012 -105.123456789012 1613.2500 StationA"
LineStationA ==
    OutputLine(<<"4","0",".","1","2","3","4","5","6","7","8","9","0","1","2"," ","-","1","0","5",".","1","2","3","4","5","6","7","8","9","0","1","2"," ","1","6","1","3",".","2","5","0","0"," ","S","t","a","t","i","o","n","A">>,
        << TransformationResult(<<"S","t","a","t","i","o","n","A">>,
            Dec(FALSE, <<"4","0">>, <<"1","2","3","4","5","6","7","8","9","0","1","2">>),
            Dec(FALSE, <<"1","0","5">>, <<"1","2","3","4","5","6","7","8","9","0","1","2">>),
            Dec(FALSE, <<"1","6","1","3">>, <<"2","5">>)) >>)

\* "  39.0   -104.0 1600.0  Denver   Airport "
LineAirport ==
    OutputLine(<<" "," ","3","9",".","0"," "," "," ","-","1","0","4",".","0"," ","1","6","0","0",".","0"," "," ","D","e","n","v","e","r"," "," "," ","A","i","r","p","o","r","t"," ">>,
        << TransformationResult(<<"D","e","n","v","e","r"," ","A","i","r","p","o","r","t">>,
            Dec(FALSE, <<"3","9">>, <<>>),
            Dec(FALSE, <<"1","0","4">>, <<>>),
            Dec(FALSE, <<"1","6","0","0">>, <<>>)) >>)

\* "1 2 3"
LineThreeTokens ==
    OutputLine(<<"1"," ","2"," ","3">>,
        <<>>)

\* "LATITUDE LONGITUDE HEIGHT NAME"
LineHeader ==
    OutputLine(<<"L","A","T","I","T","U","D","E"," ","L","O","N","G","I","T","U","D","E"," ","H","E","I","G","H","T"," ","N","A","M","E">>,
        <<>>)

\* "1.0 abc 3 x"
LineBadSecond ==
    OutputLine(<<"1",".","0"," ","a","b","c"," ","3"," ","x">>,
        <<>>)

\* "-.5 0 2e3 P1"
LineExponent ==
    OutputLine(<<"-",".","5"," ","0"," ","2","e","3"," ","P","1">>,
        << TransformationResult(<<"P","1">>,
            Dec(TRUE, <<>>, <<"5">>),
            Dec(TRUE, <<>>, <<>>),
            Dec(FALSE, <<"2","0","0","0">>, <<>>)) >>)

\* " *** 1 2 3 4"
LineIndentedStars ==
    OutputLine(<<" ","*","*","*"," ","1"," ","2"," ","3"," ","4">>,
        <<>>)

\* "nan inf 1 N"
LineNotFinite ==
    OutputLine(<<"n","a","n"," ","i","n","f"," ","1"," ","N">>,
        << TransformationResult(<<"N">>,
            NaN,
            Inf(TRUE),
            Dec(FALSE, <<"1">>, <<>>)) >>)

\* "1 2 3 TRANSFORMING ***"
LineBannerInName ==
    OutputLine(<<"1"," ","2"," ","3"," ","T","R","A","N","S","F","O","R","M","I","N","G"," ","*","*","*">>,
        << TransformationResult(<<"T","R","A","N","S","F","O","R","M","I","N","G"," ","*","*","*">>,
            Dec(FALSE, <<"1">>, <<>>),
            Dec(TRUE, <<"2">>, <<>>),
            Dec(FALSE, <<"3">>, <<>>)) >>)

\* "***1 2 3 4"
LineGluedBanner ==
    OutputLine(<<"*","*","*","1"," ","2"," ","3"," ","4">>,
        <<>>)

OutputLines ==
    <<LineStars,
      LineTransforming,
      LineEmpty,
      LineBlank,
      LineStationA,
      LineAirport,
      LineThreeTokens,
      LineHeader,
      LineBadSecond,
      LineExponent,
      LineIndentedStars,
      LineNotFinite,
      LineBannerInName,
      LineGluedBanner>>

EngineWritesLine ==
    /\ Imported /\ phase = "idle"
    /\ Len(emitted) < MaxLines
    /\ \E n \in DOMAIN OutputLines :
          /\ emitted' = Append(emitted, n)
          /\ fs' = (OutputPath :>
                       (IF OutputPath \in DOMAIN fs THEN fs[OutputPath] ELSE <<>>)
                       \o OutputLines[n].text \o <<"\n">>) @@ fs
    /\ UNCHANGED <<dirs, points, rejected, results, raised, phase>>
    /\ UNCHANGED <<varsImport, varsResolve, varsScript, varsCall>>

\* the engine leaves an empty output file
EngineWritesNothing ==
    /\ Imported /\ phase = "idle"
    /\ OutputPath \notin DOMAIN fs
    /\ fs' = (OutputPath :> <<>>) @@ fs
    /\ UNCHANGED <<dirs, points, rejected, emitted, results, raised, phase>>
    /\ UNCHANGED <<varsImport, varsResolve, varsScript, varsCall>>

ParseOutputFile ==
    /\ Imported /\ phase = "idle"
    /\ LET r == parse_output_file(fs, OutputPath) IN
          /\ results' = r.results
          /\ raised' = IF r.ok THEN NoError
                       ELSE Error(r.type, r.msg, "parse_output_file", <<>>)
    /\ phase' = "parsed"
    /\ UNCHANGED <<points, rejected, emitted>>
    /\ UNCHANGED <<varsImport, varsResolve, varsDisk, varsScript, varsCall>>

NextDecode ==
    \/ RegisterFull
    \/ RegisterShort
    \/ RegisterParen
    \/ EngineWritesLine
    \/ EngineWritesNothing
    \/ ParseOutputFile

InitDecode ==
    /\ InitImport /\ InitResolve /\ InitWorkDir /\ InitCodec /\ InitScript /\ InitCall
    /\ binary = "ok"

SpecDecode == InitDecode /\ [][NextDecode]_vars

(***************************************************************************)
(* Claims about the decoder.                                               *)
(***************************************************************************)
SameFloat(a, b) == a = b \/ FloatEq(a, b)

SameRow(a, b) ==
    /\ a.name = b.name
    /\ SameFloat(a.latitude, b.latitude)
    /\ SameFloat(a.longitude, b.longitude)
    /\ SameFloat(a.ellipsoid_height, b.ellipsoid_height)

\* the rows the lines written so far stand for, in file order
ExpectedRows == Concat([i \in DOMAIN emitted |-> OutputLines[emitted[i]].rows])

\* the file holds banner lines and nothing else
OnlyBanners ==
    /\ emitted # <<>>
    /\ \A i \in DOMAIN emitted :
           OutputLines[emitted[i]] \in {LineStars, LineTransforming}

\* C10: for an output file that exists, parse_output_file raises nothing and
\* returns, in file order, exactly one row per line that is a data line (not
\* empty, not a banner, four tokens or more, three leading numbers), with the
\* longitude negated and the name rejoined; every other line is dropped.
C10_DecoderIsLenient ==
    /\ (phase = "parsed" /\ OutputPath \in DOMAIN fs) =>
            /\ raised = NoError
            /\ Len(results) = Len(ExpectedRows)
            /\ \A i \in DOMAIN results : SameRow(results[i], ExpectedRows[i])
    /\ (phase = "parsed" /\ OnlyBanners) => (results = <<>> /\ raised = NoError)

\* a banner, then a data line whose name has two words: one row comes back
C10_Witness ==
    /\ phase = "parsed"
    /\ Len(emitted) = 2
    /\ OutputLines[emitted[1]] = LineStars
    /\ OutputLines[emitted[2]] = LineAirport
    /\ Len(results) = 1
    /\ results[1].name = <<"D","e","n","v","e","r"," ","A","i","r","p","o","r","t">>
    /\ results[1].longitude = Dec(FALSE, <<"1","0","4">>, <<>>)

(***************************************************************************)
(* Building scripts: build_stdin_script on a range of arguments.           *)
(***************************************************************************)
Epoch1905_9 == Dec(FALSE, <<"1","9","0","5">>, <<"9">>)

Epoch1906 == Dec(FALSE, <<"1","9","0","6">>, <<>>)

Epoch2005 == Dec(FALSE, <<"2","0","0","5">>, <<>>)

Epoch2020 == Dec(FALSE, <<"2","0","2","0">>, <<>>)

Epoch2020_5 == Dec(FALSE, <<"2","0","2","0">>, <<"5">>)

\* the frame indices and epochs scripts are built for
FrameArgs == {1, 6, 25, 26}

EpochArgs == {Epoch1906, Epoch2005, Epoch2020, Epoch2020_5}

CallBuildScript ==
    /\ Imported
    /\ script_args = None
    /\ \E dir \in TmpNames, fin \in FrameArgs, fout \in FrameArgs,
          ein \in EpochArgs, eout \in EpochArgs :
          /\ script_args' = [output_path |-> PathIn(dir, ResultsTxt),
                             input_frame |-> fin,
                             output_frame |-> fout,
                             input_epoch |-> ein,
                             output_epoch |-> eout,
                             input_file |-> PathIn(dir, PointsTxt)]
          /\ stdin_script' = build_stdin_script(PathIn(dir, ResultsTxt), fin, fout,
                                                ein, eout, PathIn(dir, PointsTxt))
    /\ UNCHANGED <<varsImport, varsResolve, varsDisk, varsCodec, varsCall>>

NextScript ==
    \/ RegisterFull
    \/ RegisterShort
    \/ RegisterParen
    \/ CallBuildScript

InitScriptSpec ==
    /\ InitImport /\ InitResolve /\ InitDisk /\ InitCodec /\ InitScript /\ InitCall
    /\ binary = "ok"

SpecScript == InitScriptSpec /\ [][NextScript]_vars

(***************************************************************************)
(* Claims about the script builder.                                        *)
(***************************************************************************)
ScriptLines == FileLines(stdin_script)

ReadsAsInt(t, n) == t # <<>> /\ AllDigits(t) /\ int(t) = n

\* the commands of section 4.3, in order, as far as the script goes
ScriptFollowsTemplate(l, a) ==
    /\ Len(l) >= 1 => l[1] = <<"4">>
    /\ Len(l) >= 2 => l[2] = a.output_path
    /\ Len(l) >= 3 => ReadsAsInt(l[3], a.input_frame)
    /\ Len(l) >= 4 => ReadsAsInt(l[4], a.output_frame)
    /\ Len(l) >= 5 => l[5] = <<"2">>
    /\ Len(l) >= 6 => ReadsAs(l[6], a.input_epoch)
    /\ Len(l) >= 7 => l[7] = <<"2">>
    /\ Len(l) >= 8 => ReadsAs(l[8], a.output_epoch)
    /\ Len(l) >= 9 => l[9] = <<"3">>
    /\ Len(l) >= 10 => l[10] = a.input_file
    /\ Len(l) >= 11 => l[11] = <<"0">>
    /\ Len(l) >= 12 => l[12] = <<"0">>

\* C6, as stated: the script is the fixed template of 11 lines, with the
\* values substituted, whatever the arguments.
C6_ElevenLineTemplate ==
    script_args # None =>
        /\ Len(ScriptLines) = 11
        /\ ScriptFollowsTemplate(ScriptLines, script_args)

\* C6, amended: the template has 12 lines: the transform selection, the
\* output path, the two frame indices, "2" and the input epoch, "2" and the
\* output epoch, "3" and the input file path, "0" to return to the main
\* menu and "0" to exit; each is terminated by a newline.
C6_TwelveLineTemplate ==
    script_args # None =>
        /\ Len(ScriptLines) = 12
        /\ ScriptFollowsTemplate(ScriptLines, script_args)
        /\ stdin_script[Len(stdin_script)] = "\n"

\* the script of the end-to-end scenario: frames 1 and 25, epochs 2005.0 and 2020.0
C6_Witness ==
    /\ script_args # None
    /\ script_args.input_frame = 1 /\ script_args.output_frame = 25
    /\ script_args.input_epoch = Epoch2005 /\ script_args.output_epoch = Epoch2020
    /\ script_args.output_path = PathIn(TmpA, ResultsTxt)
    /\ ScriptLines = << <<"4">>, <<"/","t","m","p","/","h","t","d","p","_","a","/","r","e","s","u","l","t","s",".","t","x","t">>,
                        <<"1">>, <<"2","5">>,
                        <<"2">>, <<"2","0","0","5",".","0">>,
                        <<"2">>, <<"2","0","2","0",".","0">>,
                        <<"3">>, <<"/","t","m","p","/","h","t","d","p","_","a","/","p","o","i","n","t","s",".","t","x","t">>,
                        <<"0">>, <<"0">> >>

(***************************************************************************)
(* One POST /transform: the payload is validated into a                    *)
(* TransformationRequest, transform calls run_transformation, and the      *)
(* outcome is turned into the answer.  The engine is a child process that  *)
(* reads the script, may write the output file it names, and exits with a  *)
(* status of its choosing, unless the timeout ends it first.               *)
(***************************************************************************)
\* the end-to-end scenario of the specification
ReqScenario ==
    [input_frame |-> Text(FRAME_MENU[1]),
     output_frame |-> Index(25),
     input_epoch |-> Epoch2005,
     output_epoch |-> Epoch2020,
     points |-> <<RawDenver>>]

\* both epochs exactly 1906.0, frames by index and by alias
ReqAtFloor ==
    [input_frame |-> Index(1),
     output_frame |-> Text(IdItrf2014),
     input_epoch |-> Epoch1906,
     output_epoch |-> Epoch1906,
     points |-> <<RawDenver>>]

\* two points
ReqTwoPoints ==
    [input_frame |-> Text(IdWgs84),
     output_frame |-> Text(Id25),
     input_epoch |-> Epoch2020_5,
     output_epoch |-> Epoch2005,
     points |-> <<RawDenver, RawStationA>>]

\* an input frame that matches nothing
ReqBadInputFrame ==
    [input_frame |-> Text(IdNotAFrame),
     output_frame |-> Index(25),
     input_epoch |-> Epoch2005,
     output_epoch |-> Epoch2020,
     points |-> <<RawDenver>>]

\* an output frame index outside the catalog
ReqBadOutputFrame ==
    [input_frame |-> Index(1),
     output_frame |-> Index(999),
     input_epoch |-> Epoch2005,
     output_epoch |-> Epoch2020,
     points |-> <<RawDenver>>]

\* an input epoch below the floor
ReqEarlyInput ==
    [input_frame |-> Index(1),
     output_frame |-> Index(25),
     input_epoch |-> Epoch1905_9,
     output_epoch |-> Epoch2020,
     points |-> <<RawDenver>>]

\* an output epoch below the floor
ReqEarlyOutput ==
    [input_frame |-> Index(1),
     output_frame |-> Index(25),
     input_epoch |-> Epoch2005,
     output_epoch |-> Epoch1905_9,
     points |-> <<RawDenver>>]

\* no point
ReqNoPoints ==
    [input_frame |-> Index(1),
     output_frame |-> Index(25),
     input_epoch |-> Epoch2005,
     output_epoch |-> Epoch2020,
     points |-> <<>>]

\* a point outside the latitude range
ReqBadPoint ==
    [input_frame |-> Index(1),
     output_frame |-> Index(25),
     input_epoch |-> Epoch2005,
     output_epoch |-> Epoch2020,
     points |-> <<RawNorth>>]

\* every field in violation
ReqAllWrong ==
    [input_frame |-> Text(<<>>),
     output_frame |-> Index(0),
     input_epoch |-> Epoch1905_9,
     output_epoch |-> Epoch1905_9,
     points |-> <<>>]

\* an input epoch that is not a number
ReqNanInput ==
    [input_frame |-> Index(1),
     output_frame |-> Index(25),
     input_epoch |-> NaN,
     output_epoch |-> Epoch2020,
     points |-> <<RawDenver>>]

RawRequests ==
    {ReqScenario,
     ReqAtFloor,
     ReqTwoPoints,
     ReqBadInputFrame,
     ReqBadOutputFrame,
     ReqEarlyInput,
     ReqEarlyOutput,
     ReqNoPoints,
     ReqBadPoint,
     ReqAllWrong,
     ReqNanInput}

\* a check that lets everything pass
BinaryNeverChecked(b) == NoError

\* ensure_binary_exists: the exception it raises for a state of the binary
ensure_binary_exists(b) ==
    IF b = "missing"
    THEN Error("FileNotFoundError", "HTDP binary not found", "ensure_binary_exists", <<>>)
    ELSE IF b = "noexec"
    THEN Error("PermissionError", "HTDP binary is not executable",
               "ensure_binary_exists", <<>>)
    ELSE NoError

\* leaving a temporary directory that cleans up after a normal exit only
RemoveTreeUnlessRaised(disk, dir, e) ==
    IF e = NoError
    THEN [path \in {q \in DOMAIN disk : ~Under(dir, q)} |-> disk[path]]
    ELSE disk

\* TemporaryDirectory.__exit__: the files left once the tree of dir is removed,
\* whatever exception e is in flight
RemoveTree(disk, dir, e) ==
    [path \in {q \in DOMAIN disk : ~Under(dir, q)} |-> disk[path]]

\* what the engine may leave in its output file
EngineOutputs ==
    {LineStars.text \o <<"\n">> \o LineStars.text \o <<"\n">> \o LineStars.text \o <<"\n">>,
     LineTransforming.text \o <<"\n">> \o LineStationA.text \o <<"\n">>,
     LineAirport.text \o <<"\n">> \o LineStationA.text \o <<"\n">> \o LineHeader.text \o <<"\n">>}

HTTPException(status, shape, message, stdout, stderr) ==
    [kind |-> "HTTPException", status |-> status, shape |-> shape,
     message |-> message, stdout |-> stdout, stderr |-> stderr, results |-> <<>>]

\* the body of transform: what the handler answers for the outcome of
\* run_transformation; an exception no clause names leaves the handler
transform(e, done, rows) ==
    IF e = NoError
    THEN [kind |-> "HTDPExecution", status |-> 200, shape |-> "model",
          message |-> "", stdout |-> done.stdout, stderr |-> done.stderr,
          results |-> rows]
    ELSE IF e.type = "ValueError"
    THEN HTTPException(400, "str", e.msg, "", "")
    ELSE IF e.type \in {"FileNotFoundError", "PermissionError"}
    THEN HTTPException(500, "str", e.msg, "", "")
    ELSE IF e.type = "RuntimeError"
    THEN HTTPException(500, "dict", e.msg,
                       IF Len(e.args) > 1 THEN e.args[2] ELSE "",
                       IF Len(e.args) > 2 THEN e.args[3] ELSE "")
    ELSE [kind |-> "Unhandled", status |-> 500, shape |-> "none",
          message |-> "", stdout |-> "", stderr |-> "", results |-> <<>>]

\* the payload fails validation: transform is not called
PostInvalid ==
    /\ Imported /\ pc = "idle"
    /\ \E raw \in RawRequests :
          /\ ~TransformationRequest(_frame_aliases, raw).ok
          /\ response' = [kind |-> "RequestValidationError", status |-> 422,
                          shape |-> "errors", message |-> "", stdout |-> "",
                          stderr |-> "", results |-> <<>>]
          /\ exc' = Error("ValidationError", "", "TransformationRequest",
                          TransformationRequest(_frame_aliases, raw).errors)
    /\ pc' = "done"
    /\ UNCHANGED <<request, binary, tmpdir, child, completed, spawned, tmpMade>>
    /\ UNCHANGED <<varsImport, varsResolve, varsDisk, varsCodec, varsScript>>

\* the payload is valid: transform calls run_transformation
PostValid ==
    /\ Imported /\ pc = "idle"
    /\ \E raw \in RawRequests :
          /\ TransformationRequest(_frame_aliases, raw).ok
          /\ request' = TransformationRequest(_frame_aliases, raw).value
    /\ pc' = "check"
    /\ UNCHANGED <<response, binary, tmpdir, child, completed, exc, spawned, tmpMade>>
    /\ UNCHANGED <<varsImport, varsResolve, varsDisk, varsCodec, varsScript>>

EnsureBinary ==
    /\ pc = "check"
    /\ exc' = ensure_binary_exists(binary)
    /\ pc' = IF ensure_binary_exists(binary) = NoError THEN "mkdtemp" ELSE "respond"
    /\ UNCHANGED <<request, response, binary, tmpdir, child, completed, spawned, tmpMade>>
    /\ UNCHANGED <<varsImport, varsResolve, varsDisk, varsCodec, varsScript>>

\* with tempfile.TemporaryDirectory(prefix="htdp_") as tmpdir
MakeTempDir ==
    /\ pc = "mkdtemp"
    /\ \E name \in TmpNames \ dirs :
          /\ tmpdir' = name
          /\ dirs' = dirs \cup {name}
    /\ tmpMade' = tmpMade + 1
    /\ pc' = "write"
    /\ UNCHANGED <<fs, request, response, binary, child, completed, exc, spawned>>
    /\ UNCHANGED <<varsImport, varsResolve, varsCodec, varsScript>>

input_file == PathIn(tmpdir, PointsTxt)

output_file == PathIn(tmpdir, ResultsTxt)

WriteInput ==
    /\ pc = "write"
    /\ fs' = (input_file :> write_input_file(request.points)) @@ fs
    /\ pc' = "script"
    /\ UNCHANGED <<dirs, request, response, binary, tmpdir, child, completed, exc,
                   spawned, tmpMade>>
    /\ UNCHANGED <<varsImport, varsResolve, varsCodec, varsScript>>

BuildScript ==
    /\ pc = "script"
    /\ stdin_script' = build_stdin_script(output_file, request.input_frame,
                                          request.output_frame, request.input_epoch,
                                          request.output_epoch, input_file)
    /\ pc' = "run"
    /\ UNCHANGED <<script_args, request, response, binary, tmpdir, child, completed,
                   exc, spawned, tmpMade>>
    /\ UNCHANGED <<varsImport, varsResolve, varsDisk, varsCodec>>

\* subprocess.run starts the child
SpawnEngine ==
    /\ pc = "run"
    /\ child' = "running"
    /\ spawned' = spawned + 1
    /\ pc' = "wait"
    /\ UNCHANGED <<request, response, binary, tmpdir, completed, exc, tmpMade>>
    /\ UNCHANGED <<varsImport, varsResolve, varsDisk, varsCodec, varsScript>>

\* the engine writes the file named on the second line of its input
EngineWritesOutput ==
    /\ child = "running"
    /\ FileLines(stdin_script)[2] \notin DOMAIN fs
    /\ \E content \in EngineOutputs :
          fs' = (FileLines(stdin_script)[2] :> content) @@ fs
    /\ UNCHANGED <<dirs, varsCall>>
    /\ UNCHANGED <<varsImport, varsResolve, varsCodec, varsScript>>

EngineExits ==
    /\ child = "running"
    /\ \E rc \in {0, 1} :
          completed' = [returncode |-> rc, stdout |-> "transcript", stderr |-> "warnings"]
    /\ child' = "exited"
    /\ pc' = "exited"
    /\ UNCHANGED <<request, response, binary, tmpdir, exc, spawned, tmpMade>>
    /\ UNCHANGED <<varsImport, varsResolve, varsDisk, varsCodec, varsScript>>

\* the timeout of subprocess.run expires: the child is killed, TimeoutExpired raised
Timeout ==
    /\ pc = "wait" /\ child = "running"
    /\ child' = "killed"
    /\ exc' = Error("TimeoutExpired", "timed out", "subprocess.run", <<>>)
    /\ pc' = "cleanup"
    /\ UNCHANGED <<request, response, binary, tmpdir, completed, spawned, tmpMade>>
    /\ UNCHANGED <<varsImport, varsResolve, varsDisk, varsCodec, varsScript>>

CheckReturnCode ==
    /\ pc = "exited"
    /\ exc' = IF completed.returncode # 0
              THEN Error("RuntimeError", "HTDP execution failed", "run_transformation",
                         <<"HTDP execution failed", completed.stdout, completed.stderr>>)
              ELSE NoError
    /\ pc' = IF completed.returncode # 0 THEN "cleanup" ELSE "parse"
    /\ UNCHANGED <<request, response, binary, tmpdir, child, completed, spawned, tmpMade>>
    /\ UNCHANGED <<varsImport, varsResolve, varsDisk, varsCodec, varsScript>>

ParseResults ==
    /\ pc = "parse"
    /\ LET r == parse_output_file(fs, output_file) IN
          /\ results' = r.results
          /\ exc' = IF r.ok THEN NoError
                    ELSE Error(r.type, r.msg, "parse_output_file", <<>>)
    /\ pc' = "cleanup"
    /\ UNCHANGED <<points, rejected, emitted, raised, phase>>
    /\ UNCHANGED <<request, response, binary, tmpdir, child, completed, spawned, tmpMade>>
    /\ UNCHANGED <<varsImport, varsResolve, varsDisk, varsScript>>

\* the with block is left, normally or by an exception
ExitTempDir ==
    /\ pc = "cleanup"
    /\ dirs' = dirs \ {tmpdir}
    /\ fs' = RemoveTree(fs, tmpdir, exc)
    /\ pc' = "respond"
    /\ UNCHANGED <<request, response, binary, tmpdir, child, completed, exc,
                   spawned, tmpMade>>
    /\ UNCHANGED <<varsImport, varsResolve, varsCodec, varsScript>>

\* run_transformation has returned or raised: transform answers
Respond ==
    /\ pc = "respond"
    /\ response' = transform(exc, completed, results)
    /\ pc' = "done"
    /\ UNCHANGED <<request, binary, tmpdir, child, completed, exc, spawned, tmpMade>>
    /\ UNCHANGED <<varsImport, varsResolve, varsDisk, varsCodec, varsScript>>

Next ==
    \/ RegisterFull
    \/ RegisterShort
    \/ RegisterParen
    \/ PostInvalid
    \/ PostValid
    \/ EnsureBinary
    \/ MakeTempDir
    \/ WriteInput
    \/ BuildScript
    \/ SpawnEngine
    \/ EngineWritesOutput
    \/ EngineExits
    \/ Timeout
    \/ CheckReturnCode
    \/ ParseResults
    \/ ExitTempDir
    \/ Respond

\* the binary is present, absent or not executable; another call of the
\* service may hold a temporary directory of its own
Init ==
    /\ InitImport /\ InitResolve /\ InitCodec /\ InitScript /\ InitCall
    /\ binary \in {"ok", "missing", "noexec"}
    /\ \/ dirs = {} /\ fs = <<>>
       \/ dirs = {TmpB} /\ fs = (PathIn(TmpB, PointsTxt) :> <<>>)

Spec == Init /\ [][Next]_vars

(***************************************************************************)
(* Claims about the invocation.                                            *)
(***************************************************************************)
\* run_transformation has been left, by a return or by an exception
Left == pc \in {"respond", "done"} /\ request # None

\* C1: once run_transformation has returned or raised, the temporary
\* directory it made, and every file in it, is gone.
C1_TempAreaRemoved ==
    (Left /\ tmpMade > 0) =>
        /\ tmpdir \notin dirs
        /\ \A path \in DOMAIN fs : ~Under(tmpdir, path)

\* the call timed out after the engine had been started, and nothing is left
C1_Witness ==
    /\ pc = "done"
    /\ tmpMade = 1 /\ spawned = 1
    /\ exc.type = "TimeoutExpired"
    /\ tmpdir \notin dirs
    /\ input_file \notin DOMAIN fs

\* what the handler answers, as far as a client can branch on it
Visible(r) == <<r.kind, r.status, r.shape>>

OtherFailures ==
    {ensure_binary_exists("missing"),
     ensure_binary_exists("noexec"),
     Error("RuntimeError", "HTDP execution failed", "run_transformation",
           <<"HTDP execution failed", "transcript", "warnings">>),
     Error("FileNotFoundError", "HTDP output file was not created",
           "parse_output_file", <<>>)}

\* C2: on a timeout the child is cancelled and transform answers with a
\* structured error that carries a message and that differs from the answer
\* to every other failure.
C2_TimeoutIsReported ==
    (pc = "done" /\ exc.type = "TimeoutExpired") =>
        /\ child = "killed"
        /\ response.kind = "HTTPException"
        /\ response.message # ""
        /\ \A e \in OtherFailures :
              Visible(response) # Visible(transform(e, completed, results))

\* C3: a missing output file after exit status 0 is an outcome of its own:
\* neither the exception nor the answer is the one a missing or
\* non-executable binary gives; a run with no parseable row is a success
\* with an empty list.
C3_MissingOutputIsDistinct ==
    /\ (pc = "done" /\ exc.raised_by = "parse_output_file") =>
          /\ completed.returncode = 0
          /\ \A b \in {"missing", "noexec"} :
                /\ exc.type # ensure_binary_exists(b).type
                /\ Visible(response)
                      # Visible(transform(ensure_binary_exists(b), completed, results))
    /\ (pc = "done" /\ request # None /\ exc = NoError) =>
          /\ response.kind = "HTDPExecution"
          /\ response.results = results

\* C4: when the binary is missing or not executable, the call fails with
\* the exception of ensure_binary_exists, and no temporary directory, input
\* file, script or child process is ever made.
C4_BinaryCheckedFirst ==
    binary # "ok" =>
        /\ tmpMade = 0 /\ tmpdir = <<>>
        /\ spawned = 0 /\ child = "none"
        /\ stdin_script = <<>>
        /\ \A path \in DOMAIN fs : Under(TmpB, path) /\ TmpB \in dirs
        /\ Left => /\ exc.raised_by = "ensure_binary_exists"
                   /\ exc.type \in {"FileNotFoundError", "PermissionError"}

\* the binary is not executable: the call has failed and made nothing
C4_Witness ==
    /\ pc = "done" /\ request # None
    /\ binary = "noexec"
    /\ exc.type = "PermissionError"
    /\ response.status = 500
    /\ tmpMade = 0 /\ spawned = 0

\* C5: a request for which an engine process is spawned has both frames
\* resolved to catalog indices, both epochs >= 1906.0 and a point or more;
\* a payload in violation is answered without a call of run_transformation.
C5_OnlyValidRequestsReachEngine ==
    /\ spawned > 0 =>
          /\ request.input_frame \in FrameIndices
          /\ request.output_frame \in FrameIndices
          /\ FloatGe(request.input_epoch, EpochFloor)
          /\ FloatGe(request.output_epoch, EpochFloor)
          /\ request.points # <<>>
    /\ (pc = "done" /\ request = None) => (spawned = 0 /\ tmpMade = 0)

====
